---- MODULE Spec2Model ----
(***************************************************************************)
(* Voice-to-note: the upload route of the two backends (src/api/index.js,  *)
(* src/server/server.js) and the upload flow of the React clients          *)
(* (src/unnamed/part_000, src/unnamed/part_001, src/README.md).            *)
(*                                                                         *)
(* JavaScript strings are sequences of one-character strings, so that      *)
(* template literals, join() and toString() are real concatenations.       *)
(***************************************************************************)
EXTENDS Integers, Sequences, FiniteSets, TLC

(***************************************************************************)
(* Bounds of the model.                                                    *)
(***************************************************************************)
\* most paragraphs in a provider payload
MaxParas == 2
\* most sentences in a provider payload, over all its paragraphs
MaxSent == 2
\* the clock (Date.now(), in ms) runs from 0 to MaxClock
MaxClock == 2
\* upload requests the modelled App instance starts in one behaviour
MaxUploads == 2

\* the clock readings (0..MaxClientClock) of the runs that follow the
\* client's history over reloads and to its cap
MaxClientClock == 1
\* upload requests the App starts in one of the runs that follow its
\* history over reloads
MaxClientUploads == 1
\* the size in bytes of the file whose upload progress is followed
FileBytes == 200

(***************************************************************************)
(* String literals of the source.                                          *)
(***************************************************************************)
\* src/api/index.js:36  "Speaker"
SpeakerLabel ==
  <<"S", "p", "e", "a", "k", "e", "r">>

\* src/api/index.js:35  `Speaker ${p.speaker}`
SpeakerPrefix ==
  <<"S", "p", "e", "a", "k", "e", "r", " ">>

\* JsToString(undefined) inside a template literal
UndefinedText ==
  <<"u", "n", "d", "e", "f", "i", "n", "e", "d">>

\* src/api/index.js:38  `[${u.speaker}]: ${u.text}`
OpenBracket ==
  <<"[">>

\* src/api/index.js:38
CloseColon ==
  <<"]", ":", " ">>

\* src/api/index.js:38  .join('\n\n')
BlankLine ==
  <<"\n", "\n">>

\* src/api/index.js:35  .join(' ')
SingleSpace ==
  <<" ">>

\* src/api/index.js:40
ApiSentinel ==
  <<"S", "u", "m", "m", "a", "r", "y", " ", "n", "o", "t", " ", "a", "v",
    "a", "i", "l", "a", "b", "l", "e", ".">>

\* src/server/server.js:87
ServerSentinel ==
  <<"S", "u", "m", "m", "a", "r", "y", " ", "n", "o", "t", " ", "a", "v",
    "a", "i", "l", "a", "b", "l", "e", " ", "f", "o", "r", " ", "t", "h",
    "i", "s", " ", "a", "u", "d", "i", "o", " ", "l", "e", "n", "g", "t",
    "h", " ", "o", "r", " ", "q", "u", "a", "l", "i", "t", "y", ".">>

\* src/api/index.js:50
ApiBullets ==
  <<"K", "e", "y", " ", "i", "n", "s", "i", "g", "h", "t", "s", " ", "a",
    "r", "e", " ", "i", "n", "c", "l", "u", "d", "e", "d", " ", "i", "n",
    " ", "t", "h", "e", " ", "s", "u", "m", "m", "a", "r", "y", " ", "a",
    "b", "o", "v", "e", ".">>

\* src/server/server.js:99
ServerBullets ==
  <<"K", "e", "y", " ", "i", "n", "s", "i", "g", "h", "t", "s", " ", "a",
    "r", "e", " ", "i", "n", "c", "l", "u", "d", "e", "d", " ", "i", "n",
    " ", "t", "h", "e", " ", "s", "u", "m", "m", "a", "r", "y", " ", "a",
    "b", "o", "v", "e", ".", " ", "S", "p", "e", "a", "k", "e", "r", " ",
    "l", "a", "b", "e", "l", "i", "n", "g", " ", "i", "s", " ", "a", "c",
    "t", "i", "v", "e", " ", "i", "n", " ", "t", "h", "e", " ", "f", "u",
    "l", "l", " ", "t", "r", "a", "n", "s", "c", "r", "i", "p", "t", ".">>

\* src/api/index.js:42
DefaultModel ==
  <<"n", "o", "v", "a", "-", "2">>

\* src/api/index.js:19
NoFileMessage ==
  <<"N", "o", " ", "f", "i", "l", "e", " ", "u", "p", "l", "o", "a", "d",
    "e", "d">>

\* src/api/index.js:56
ErrorMessage ==
  <<"E", "r", "r", "o", "r", " ", "p", "r", "o", "c", "e", "s", "s", "i",
    "n", "g", " ", "a", "u", "d", "i", "o">>

\* src/api/index.js:31
DeepgramErrorPrefix ==
  <<"D", "e", "e", "p", "g", "r", "a", "m", " ", "E", "r", "r", "o", "r",
    ":", " ">>

\* Date.prototype.toISOString for an instant within the first second
IsoPrefix ==
  <<"1", "9", "7", "0", "-", "0", "1", "-", "0", "1", "T", "0", "0", ":",
    "0", "0", ":", "0", "0", ".">>

(***************************************************************************)
(* JavaScript values: a string, a number or undefined.                     *)
(***************************************************************************)
Undef == [t |-> "undefined", s |-> <<>>, n |-> 0]

Str(s) == [t |-> "string", s |-> s, n |-> 0]

Num(n) == [t |-> "number", s |-> <<>>, n |-> n]

\* an optional array: the key is absent, or holds an array
NoArr == [t |-> "undefined", a |-> <<>>]

Arr(a) == [t |-> "array", a |-> a]

DigitChar == <<"0", "1", "2", "3", "4", "5", "6", "7", "8", "9">>

RECURSIVE Digits(_)
\* Number.prototype.toString of a non-negative integer
Digits(n) ==
  IF n < 10 THEN <<DigitChar[n + 1]>>
  ELSE Digits(n \div 10) \o <<DigitChar[(n % 10) + 1]>>

\* ToString, as a template literal `${v}` applies it
JsToString(v) ==
  CASE v.t = "string" -> v.s
    [] v.t = "number" -> Digits(v.n)
    [] OTHER -> UndefinedText

\* ToBoolean, as || applies it
Truthy(v) ==
  CASE v.t = "string" -> v.s # <<>>
    [] v.t = "number" -> v.n # 0
    [] OTHER -> FALSE

\* a || b
OrElse(a, b) == IF Truthy(a) THEN a ELSE b

\* the text Array.prototype.join gives one element: "" for undefined
JoinItem(v) == IF v.t = "undefined" THEN <<>> ELSE JsToString(v)

RECURSIVE Join(_, _)
\* Array.prototype.join over a sequence of JavaScript values
Join(items, sep) ==
  IF Len(items) = 0 THEN <<>>
  ELSE IF Len(items) = 1 THEN JoinItem(items[1])
  ELSE JoinItem(items[1]) \o sep \o Join(Tail(items), sep)

\* Date.prototype.toISOString of the instant t ms after the epoch, t < 1000
ToISOString(t) ==
  IsoPrefix
    \o (IF t < 10 THEN <<"0", "0">> ELSE IF t < 100 THEN <<"0">> ELSE <<>>)
    \o Digits(t) \o <<"Z">>

\* reading a key of a parsed JSON object: undefined when the key is absent
Field(obj, key) == IF key \in DOMAIN obj THEN obj[key] ELSE Undef

(***************************************************************************)
(* The provider's payloads (RawProviderResult), within the bounds.         *)
(***************************************************************************)
Texts == {<<"h", "i">>, <<"o", "k">>}

SpeakerIds == {Num(0), Str(<<"A">>)}

SeqsUpTo(S, k) == UNION {[1..n -> S] : n \in 0..k}

Sentences == [text : {Str(x) : x \in Texts}]

Paragraphs == [speaker : SpeakerIds, sentences : SeqsUpTo(Sentences, MaxSent)]

RECURSIVE TotalSentences(_)
TotalSentences(ps) ==
  IF Len(ps) = 0 THEN 0
  ELSE Len(ps[1].sentences) + TotalSentences(Tail(ps))

ParagraphLists ==
  {ps \in SeqsUpTo(Paragraphs, MaxParas) : TotalSentences(ps) <= MaxSent}

\* alternatives[0].paragraphs: absent, an object without the inner
\* paragraphs key, or an object holding the paragraph array
ParagraphFields ==
  {NoArr, [t |-> "object", a |-> <<>>]} \cup {Arr(ps) : ps \in ParagraphLists}

TranscriptFields == {Undef, Str(<<>>), Str(<<"h", "i">>)}

\* alternatives[0].summaries: absent, empty, or one entry whose summary
\* is absent, empty or a text
SummaryFields ==
  {NoArr, Arr(<<>>)}
    \cup {Arr(<<[summary |-> s]>>) : s \in {Undef, Str(<<>>), Str(<<"o", "k">>)}}

\* result.metadata: absent, empty, holding a duration that is not a number,
\* or holding duration and model_info.name
MetadataFields ==
  { [present |-> FALSE, duration |-> Undef, modelName |-> Undef],
    [present |-> TRUE, duration |-> Undef, modelName |-> Undef],
    [present |-> TRUE, duration |-> Str(<<"7">>), modelName |-> Undef],
    [present |-> TRUE, duration |-> Num(7),
     modelName |-> Str(<<"n", "o", "v", "a", "-", "3">>)] }

\* where the path result.results.channels[0].alternatives[0] ends
BrokenPaths ==
  {"noResults", "noChannels", "emptyChannels", "noAlternatives",
   "emptyAlternatives"}

WellFormed ==
  [path : {"ok"}, transcript : TranscriptFields, paragraphs : ParagraphFields,
   summaries : SummaryFields, metadata : MetadataFields]

Malformed ==
  [path : BrokenPaths, transcript : {Undef}, paragraphs : {NoArr},
   summaries : {NoArr}, metadata : {[present |-> FALSE, duration |-> Undef,
                                    modelName |-> Undef]}]

Payloads == WellFormed \cup Malformed

(***************************************************************************)
(* The reshaping of src/api/index.js:33-52 and src/server/server.js:69-100 *)
(***************************************************************************)
\* a route that reads the path with ?. all the way and so never throws
MutHasAlternative(raw) == TRUE

\* result.results.channels[0].alternatives[0] can be read
HasAlternative(raw) == raw.path = "ok"

\* alternatives[0].paragraphs?.paragraphs || []
ParagraphsOf(raw) ==
  IF raw.paragraphs.t = "array" THEN raw.paragraphs.a ELSE <<>>

\* a map that joins the sentence texts with join(''): no space between
MutParagraphToUtterance(p) ==
  [speaker |-> Str(SpeakerPrefix \o JsToString(p.speaker)),
   text |-> Str(Join([i \in 1..Len(p.sentences) |-> p.sentences[i].text],
                     <<>>))]

\* p => ({ speaker: `Speaker ${p.speaker}`,
\*         text: p.sentences.map(s => s.text).join(' ') })
ParagraphToUtterance(p) ==
  [speaker |-> Str(SpeakerPrefix \o JsToString(p.speaker)),
   text |-> Str(Join([i \in 1..Len(p.sentences) |-> p.sentences[i].text],
                     SingleSpace))]

\* the one utterance made of the flat transcript
FallbackUtterance(raw) == [speaker |-> Str(SpeakerLabel), text |-> raw.transcript]

\* a route that collects the utterances with unshift: provider order lost
MutUtterancesReversed(raw) ==
  LET us == IF Len(ParagraphsOf(raw)) > 0
            THEN [i \in 1..Len(ParagraphsOf(raw)) |->
                    ParagraphToUtterance(ParagraphsOf(raw)[i])]
            ELSE <<FallbackUtterance(raw)>>
  IN [i \in 1..Len(us) |-> us[Len(us) + 1 - i]]

\* a route without the flat-transcript fallback
MutUtterancesNoFallback(raw) ==
  [i \in 1..Len(ParagraphsOf(raw)) |-> ParagraphToUtterance(ParagraphsOf(raw)[i])]

\* api/index.js:34-36  paragraphs.length > 0 ? paragraphs.map(...) : [{...}]
Utterances(raw) ==
  IF Len(ParagraphsOf(raw)) > 0
  THEN [i \in 1..Len(ParagraphsOf(raw)) |->
          ParagraphToUtterance(ParagraphsOf(raw)[i])]
  ELSE <<FallbackUtterance(raw)>>

\* a server.js without the else branch: utterances stays []
MutServerUtterances(raw) ==
  [i \in 1..Len(ParagraphsOf(raw)) |-> ParagraphToUtterance(ParagraphsOf(raw)[i])]

\* server.js:70-82  let utterances = []; if (paragraphs.length > 0) {
\* utterances = paragraphs.map(...) } else { utterances = [{...}] }
ServerUtterances(raw) ==
  LET paragraphs == ParagraphsOf(raw)
      mapped == [i \in 1..Len(paragraphs) |-> ParagraphToUtterance(paragraphs[i])]
      single == <<[speaker |-> Str(SpeakerLabel), text |-> raw.transcript]>>
  IN IF Len(paragraphs) > 0 THEN mapped ELSE single

\* u => `[${u.speaker}]: ${u.text}`
FormatUtterance(u) ==
  Str(OpenBracket \o JsToString(u.speaker) \o CloseColon \o JsToString(u.text))

\* a route that joins the lines with one newline
MutFullTranscript(utterances) ==
  Join([i \in 1..Len(utterances) |-> FormatUtterance(utterances[i])],
       <<"\n">>)

\* utterances.map(u => `[${u.speaker}]: ${u.text}`).join('\n\n')
FullTranscript(utterances) ==
  Join([i \in 1..Len(utterances) |-> FormatUtterance(utterances[i])],
       BlankLine)

\* alternatives[0].summaries?.[0]?.summary
FirstSummary(raw) ==
  IF raw.summaries.t = "array" /\ Len(raw.summaries.a) > 0
  THEN raw.summaries.a[1].summary
  ELSE Undef

Sentinel(backend) == IF backend = "api" THEN ApiSentinel ELSE ServerSentinel

\* a route that defaults with ?? instead of ||: an empty summary is kept
MutSummaryResult(backend, raw) ==
  IF FirstSummary(raw) # Undef THEN FirstSummary(raw)
  ELSE Str(Sentinel(backend))

\* ... || "Summary not available."
SummaryResult(backend, raw) == OrElse(FirstSummary(raw), Str(Sentinel(backend)))

\* result.metadata?.duration || 0
Duration(raw) ==
  OrElse(IF raw.metadata.present THEN raw.metadata.duration ELSE Undef, Num(0))

\* result.metadata?.model_info?.name || "nova-2"
ModelUsed(raw) ==
  OrElse(IF raw.metadata.present THEN raw.metadata.modelName ELSE Undef,
         Str(DefaultModel))

\* the object handed to res.json, built at clock reading t
TranscriptionData(backend, raw, originalname, t) ==
  IF backend = "api"
  THEN [id |-> Str(Digits(t)),
        fileName |-> originalname,
        transcript |-> Str(FullTranscript(Utterances(raw))),
        utterances |-> Utterances(raw),
        summary |-> SummaryResult(backend, raw),
        bullets |-> Str(ApiBullets),
        metadata |-> [duration |-> Duration(raw), model |-> ModelUsed(raw),
                      processedAt |-> Str(ToISOString(t))]]
  ELSE [transcript |-> Str(FullTranscript(ServerUtterances(raw))),
        utterances |-> ServerUtterances(raw),
        summary |-> SummaryResult(backend, raw),
        bullets |-> Str(ServerBullets)]

\* JSON.stringify leaves out a key whose value is undefined
JsonUtterance(u) == IF u.text = Undef THEN [speaker |-> u.speaker] ELSE u

\* the body the client parses out of res.json(data)
JsonBody(data) ==
  [data EXCEPT !.utterances =
     [i \in 1..Len(data.utterances) |-> JsonUtterance(data.utterances[i])]]

(***************************************************************************)
(* State.                                                                  *)
(***************************************************************************)
VARIABLES
  backend,         \* the deployed route: "api" (src/api/index.js) or
                   \* "server" (src/server/server.js)
  variant,         \* the client: "archive", "capped" or "single"
  now,             \* Date.now()
  disk,            \* the paths in the uploads directory (server.js)
  reqs,            \* the upload requests in flight, by slot
  file,            \* App state: the selected file's name, or null
  loading,         \* App state
  result,          \* App state: the record shown, or null
  error,           \* App state: the message shown, or null
  uploadProgress,  \* App state
  history,         \* App state: the records of the archive
  uploads,         \* uploads the App has started
  storage,         \* localStorage['voice-to-note-history']
  phase,           \* the App's mount: "unmounted", "mounted", "ready"
  pending,         \* the history a mount effect has queued for the render
  sync,            \* the manifest request in flight: its source, or "idle"
  note,            \* the remote note request in flight
  view             \* App state: searchQuery and (capped) historySearch,
                   \* sortBy, sortOrder

vars ==
  <<backend, variant, now, disk, reqs, file, loading, result, error,
    uploadProgress, history, uploads, storage, phase, pending, sync, note,
    view>>

serverVars == <<now, disk, reqs>>

mountVars == <<phase, pending, sync, note, view>>

appVars ==
  <<file, loading, result, error, uploadProgress, history, uploads, storage,
    phase, pending, sync, note, view>>

Null == [t |-> "null", s |-> <<>>, n |-> 0]

Backends == {"api", "server"}

\* src/unnamed/part_001 and part_000:1-327 (archive), part_000:329-677
\* (capped), src/README.md:92-143 (single)
Variants == {"archive", "capped", "single"}

\* the requests the server can be handling at once
Slots == {1, 2}

\* the payloads the provider answers with when whole uploads are followed:
\* a diarized one, one without paragraphs, one without transcript, and one
\* without alternatives
SysPayloads ==
  {p \in Payloads :
     /\ p.summaries = NoArr
     /\ ~p.metadata.present
     /\ \/ p.path = "emptyAlternatives"
        \/ /\ p.path = "ok"
           /\ p.paragraphs = NoArr
           /\ p.transcript \in {Undef, Str(<<"h", "i">>)}
        \/ /\ p.path = "ok"
           /\ p.transcript = Str(<<"h", "i">>)
           /\ p.paragraphs.t = "array"
           /\ Len(p.paragraphs.a) = 1
           /\ p.paragraphs.a[1].speaker = Num(0)
           /\ Len(p.paragraphs.a[1].sentences) = 1
           /\ p.paragraphs.a[1].sentences[1].text = Str(<<"h", "i">>)}

\* the provider's error objects ({ message })
ProviderErrors == {Str(<<"b", "a", "d">>)}

NoRaw == [path |-> "none"]

NoBody == [none |-> TRUE]

IdleReq ==
  [pc |-> "idle", from |-> "none", hasFile |-> FALSE, originalname |-> Undef,
   path |-> Undef, raw |-> NoRaw, status |-> 0, body |-> NoBody,
   responses |-> 0]

\* multer.diskStorage: the destination 'uploads' and the filename
\* Date.now() + '-' + file.originalname
UploadPath(t, originalname) ==
  Str(<<"u", "p", "l", "o", "a", "d", "s", "/">> \o Digits(t) \o <<"-">>
        \o originalname.s)

\* the TypeError a read through undefined throws (V8's text, without
\* the property it names)
TypeErrorMessage ==
  <<"C", "a", "n", "n", "o", "t", " ", "r", "e", "a", "d", " ", "p", "r",
    "o", "p", "e", "r", "t", "i", "e", "s", " ", "o", "f", " ", "u", "n",
    "d", "e", "f", "i", "n", "e", "d">>

\* the Error fs.readFileSync and fs.unlinkSync throw for a missing path
EnoentMessage ==
  <<"E", "N", "O", "E", "N", "T", ":", " ", "n", "o", " ", "s", "u", "c",
    "h", " ", "f", "i", "l", "e", " ", "o", "r", " ", "d", "i", "r", "e",
    "c", "t", "o", "r", "y">>

\* the error a provider call rejects with when the network fails
FetchFailedMessage ==
  <<"f", "e", "t", "c", "h", " ", "f", "a", "i", "l", "e", "d">>

\* src/unnamed/part_001:121
ConnectionErrorArchive ==
  <<"C", "o", "n", "n", "e", "c", "t", "i", "o", "n", " ", "E", "r", "r",
    "o", "r", ":", " ", "I", "s", " ", "b", "a", "c", "k", "e", "n", "d",
    " ", "r", "u", "n", "n", "i", "n", "g", "?">>

\* src/unnamed/part_000:450
ConnectionErrorCapped ==
  <<"C", "o", "n", "n", "e", "c", "t", "i", "o", "n", " ", "E", "r", "r",
    "o", "r", ":", " ", "I", "s", " ", "t", "h", "e", " ", "l", "o", "c",
    "a", "l", " ", "b", "a", "c", "k", "e", "n", "d", " ", "r", "u", "n",
    "n", "i", "n", "g", "?">>

\* src/unnamed/part_000:451, src/README.md:139
ProcessingErrorText ==
  <<"E", "r", "r", "o", "r", " ", "p", "r", "o", "c", "e", "s", "s", "i",
    "n", "g", " ", "f", "i", "l", "e", ".">>

(***************************************************************************)
(* The upload route: app.post('/api/upload', upload.single('file'), ...)   *)
(***************************************************************************)
\* a send after which the handler runs on into its catch block, which
\* sends the 500 on top
MutAnswered(req, code, body) ==
  [req EXCEPT !.pc = "done", !.status = 500, !.body = body,
              !.responses = @ + 2]

\* res.status(code).send(body) / res.json(body) as the handler's last
\* statement: one response goes out and the handler is over
Answered(req, code, body) ==
  [req EXCEPT !.pc = "done", !.status = code, !.body = body,
              !.responses = @ + 1]

\* the request of slot r is answered
Respond(r, code, body) ==
  reqs' = [reqs EXCEPT ![r] = Answered(reqs[r], code, body)]

\* a catch block that keeps the cause to itself
MutErrorBody(message) ==
  [message |-> Str(ErrorMessage), error |-> Str(ErrorMessage)]

\* the catch block: res.status(500).send({ message, error: error.message })
ErrorBody(message) == [message |-> Str(ErrorMessage), error |-> Str(message)]

\* the connection a new request takes: the first one not in use
FreeSlot(r) ==
  /\ reqs[r].pc = "idle"
  /\ \A q \in Slots : q < r => reqs[q].pc # "idle"

\* a request reaches the server: some client other than the App posts it,
\* with or without a file part
OtherRequest(r, hasFile, name) ==
  /\ FreeSlot(r)
  /\ reqs' = [reqs EXCEPT ![r] =
                [IdleReq EXCEPT !.pc = "sent", !.from = "other",
                                !.hasFile = hasFile,
                                !.originalname = IF hasFile THEN name ELSE Undef]]
  /\ UNCHANGED <<backend, variant, now, disk>>
  /\ UNCHANGED appVars

\* upload.single('file'): memoryStorage keeps the buffer, diskStorage
\* writes it under uploads/ and sets req.file.path
Multer(r) ==
  /\ reqs[r].pc = "sent"
  /\ IF reqs[r].hasFile /\ backend = "server"
     THEN /\ disk' = disk \cup {UploadPath(now, reqs[r].originalname)}
          /\ reqs' = [reqs EXCEPT ![r].pc = "received",
                                  ![r].path = UploadPath(now, reqs[r].originalname)]
     ELSE /\ disk' = disk
          /\ reqs' = [reqs EXCEPT ![r].pc = "received"]
  /\ UNCHANGED <<backend, variant, now>>
  /\ UNCHANGED appVars

\* a handler that does not look for the file
MutNoFile(req) == FALSE

\* !req.file
NoFile(req) == ~req.hasFile

\* the handler up to its await: the 400 for a missing file, the read of
\* the stored file (server.js), the call of the provider
Handler(r) ==
  /\ reqs[r].pc = "received"
  /\ IF NoFile(reqs[r])
     THEN Respond(r, 400, [message |-> Str(NoFileMessage)])
     ELSE IF backend = "server" /\ reqs[r].path \notin disk
     THEN Respond(r, 500, ErrorBody(EnoentMessage))
     ELSE reqs' = [reqs EXCEPT ![r].pc = "awaiting"]
  /\ UNCHANGED <<backend, variant, now, disk>>
  /\ UNCHANGED appVars

\* the provider answers { result, error: null }: the handler reshapes the
\* result, deletes the stored file (server.js) and sends the record
ProviderResult(r, raw) ==
  /\ reqs[r].pc = "awaiting"
  /\ LET data == TranscriptionData(backend, raw, reqs[r].originalname, now)
         seen == [reqs EXCEPT ![r].raw = raw]
     IN IF ~HasAlternative(raw)
        THEN /\ reqs' = [reqs EXCEPT ![r] =
                           Answered(seen[r], 500, ErrorBody(TypeErrorMessage))]
             /\ disk' = disk
        ELSE IF backend = "server" /\ reqs[r].path \notin disk
        THEN /\ reqs' = [reqs EXCEPT ![r] =
                           Answered(seen[r], 500, ErrorBody(EnoentMessage))]
             /\ disk' = disk
        ELSE /\ reqs' = [reqs EXCEPT ![r] =
                           Answered(seen[r], 200, JsonBody(data))]
             /\ disk' = IF backend = "server" THEN disk \ {reqs[r].path} ELSE disk
  /\ UNCHANGED <<backend, variant, now>>
  /\ UNCHANGED appVars

\* the provider answers { result: null, error }: the handler throws
\* `Deepgram Error: ${error.message}` into its catch block
ProviderError(r, err) ==
  /\ reqs[r].pc = "awaiting"
  /\ reqs' = [reqs EXCEPT ![r] =
                Answered([reqs[r] EXCEPT
                            !.raw = [path |-> "error", message |-> err]],
                         500,
                         ErrorBody(DeepgramErrorPrefix \o JsToString(err)))]
  /\ UNCHANGED <<backend, variant, now, disk>>
  /\ UNCHANGED appVars

\* the provider call itself rejects
ProviderThrow(r) ==
  /\ reqs[r].pc = "awaiting"
  /\ Respond(r, 500, ErrorBody(FetchFailedMessage))
  /\ UNCHANGED <<backend, variant, now, disk>>
  /\ UNCHANGED appVars

\* the other client has its response
OtherDone(r) ==
  /\ reqs[r].pc = "done"
  /\ reqs[r].from = "other"
  /\ reqs' = [reqs EXCEPT ![r] = IdleReq]
  /\ UNCHANGED <<backend, variant, now, disk>>
  /\ UNCHANGED appVars

\* a millisecond passes
Tick ==
  /\ now < MaxClock
  /\ now' = now + 1
  /\ UNCHANGED <<backend, variant, disk, reqs>>
  /\ UNCHANGED appVars

(***************************************************************************)
(* The App's history: localStorage, the manifest sync, the archive list.   *)
(***************************************************************************)
\* the keys whose value is a string, a number or undefined
ScalarKeys ==
  {"id", "fileName", "transcript", "summary", "bullets", "processedAt",
   "duration", "model", "speaker", "text"}

\* JSON.stringify then JSON.parse of an object: a key whose value is
\* undefined is gone
JsonObject(o) ==
  [k \in {j \in DOMAIN o : ~(j \in ScalarKeys /\ o[j] = Undef)} |-> o[k]]

\* the same for a history entry and its metadata
JsonEntry(e) ==
  IF "metadata" \in DOMAIN e
  THEN [JsonObject(e) EXCEPT !.metadata = JsonObject(e.metadata)]
  ELSE JsonObject(e)

\* JSON.parse(JSON.stringify(history))
JsonHistory(h) == [i \in 1..Len(h) |-> JsonEntry(h[i])]

\* localStorage.getItem gives null
NoStorage == [present |-> FALSE, items |-> <<>>]

\* localStorage.setItem('voice-to-note-history', JSON.stringify(history))
Persisted(h) == [present |-> TRUE, items |-> JsonHistory(h)]

\* the persist effect of the variants that keep a history
PersistEffect(h) == IF variant = "single" THEN storage ELSE Persisted(h)

\* the value of three decimal digits
ThreeDigits(s) ==
  LET d(c) == CHOOSE n \in 0..9 : DigitChar[n + 1] = c
  IN 100 * d(s[1]) + 10 * d(s[2]) + d(s[3])

\* new Date(v).getTime() for a number or a string: NaN for a string that
\* is not a date
GetTime(v) ==
  IF v.t = "number" THEN [nan |-> FALSE, ms |-> v.n]
  ELSE IF /\ Len(v.s) = Len(IsoPrefix) + 4
          /\ SubSeq(v.s, 1, Len(IsoPrefix)) = IsoPrefix
          /\ v.s[Len(v.s)] = "Z"
          /\ \A i \in 1..3 :
               \E n \in 0..9 : DigitChar[n + 1] = v.s[Len(IsoPrefix) + i]
  THEN [nan |-> FALSE,
        ms |-> ThreeDigits(SubSeq(v.s, Len(IsoPrefix) + 1, Len(IsoPrefix) + 3))]
  ELSE [nan |-> TRUE, ms |-> 0]

\* new Date(a.metadata?.processedAt || 0).getTime()
ProcessedTime(e) ==
  GetTime(OrElse(Field(Field(e, "metadata"), "processedAt"), Num(0)))

\* the comparator of the date sorts, a before b when negative: a NaN
\* result counts as 0
DateAscending(a, b) ==
  IF ProcessedTime(a).nan \/ ProcessedTime(b).nan THEN 0
  ELSE ProcessedTime(a).ms - ProcessedTime(b).ms

\* (a, b) => new Date(b...).getTime() - new Date(a...).getTime()
NewestFirst(a, b) == DateAscending(b, a)

RECURSIVE SortNewestFirst(_)
\* Array.prototype.sort with NewestFirst: stable
SortNewestFirst(items) ==
  IF Len(items) <= 1 THEN items
  ELSE LET front == SortNewestFirst(SubSeq(items, 1, Len(items) - 1))
           x == items[Len(items)]
           k == Cardinality({i \in 1..Len(front) :
                               \A j \in 1..i : NewestFirst(front[j], x) <= 0})
       IN SubSeq(front, 1, k) \o <<x>> \o SubSeq(front, k + 1, Len(front))

\* src/unnamed/part_001:88
RemoteModel == <<"N", "o", "v", "a", "-", "2">>

\* the stub syncHistory pushes for a manifest item
RemoteStub(item) ==
  [id |-> item.id, fileName |-> item.fileName,
   metadata |-> [processedAt |-> item.processedAt, duration |-> item.duration,
                 model |-> Str(RemoteModel)],
   isRemote |-> TRUE]

\* a find that finds nothing: a stub is pushed for every item
MutFound(merged, item) == FALSE

\* merged.find(m => m.id === item.id)
Found(merged, item) ==
  \E i \in 1..Len(merged) : Field(merged[i], "id") = item.id

RECURSIVE MergeManifest(_, _)
\* data.forEach(item => { if (!merged.find(m => m.id === item.id)) ... })
MergeManifest(merged, data) ==
  IF Len(data) = 0 THEN merged
  ELSE MergeManifest(
         IF Found(merged, Head(data))
         THEN merged
         ELSE Append(merged, RemoteStub(Head(data))),
         Tail(data))

\* a sync that refreshes the entries the manifest names
MutSyncHistory(prev, data) ==
  SortNewestFirst(
    [i \in 1..Len(prev) |->
       IF \E k \in 1..Len(data) : Field(prev[i], "id") = data[k].id
       THEN RemoteStub(CHOOSE item \in {data[k] : k \in 1..Len(data)} :
                         item.id = Field(prev[i], "id"))
       ELSE prev[i]])

\* the updater syncHistory hands to setHistory
SyncHistory(prev, data) == SortNewestFirst(MergeManifest(prev, data))


\* the items a manifest.json lists: one with the id of a record made at
\* clock 0, one of another note whose duration is missing
ManifestItems ==
  { [id |-> Str(Digits(0)), fileName |-> Str(<<"a", ".", "m", "p", "3">>),
     processedAt |-> Str(ToISOString(0)), duration |-> Num(7)],
    [id |-> Str(<<"9">>), fileName |-> Str(<<"r", ".", "m", "p", "3">>),
     processedAt |-> Str(ToISOString(1)), duration |-> Undef] }

\* the manifests the sources answer with: each lists the other note, one
\* lists the record made at clock 0 before it, one lists the other note
\* twice
Manifests ==
  {m \in [1..1 -> ManifestItems] \cup [1..2 -> ManifestItems] :
     m[Len(m)].id = Str(<<"9">>)}

\* the payload the provider answers with while the history is followed
DiarizedPayload == CHOOSE raw \in SysPayloads : raw.paragraphs.t = "array"

\* the record /data/<id>.json holds
RemoteNote(id) ==
  [JsonBody(TranscriptionData("api", DiarizedPayload,
                              Str(<<"r", ".", "m", "p", "3">>), 1))
     EXCEPT !.id = id]

\* src/unnamed/part_001:136
FetchFailedText ==
  <<"C", "o", "u", "l", "d", " ", "n", "o", "t", " ", "f", "e", "t", "c", "h",
    " ", "f", "u", "l", "l", " ", "n", "o", "t", "e", " ", "d", "e", "t", "a",
    "i", "l", "s", ".">>

IdleNote == [pc |-> "idle", id |-> Undef]

UpperCase ==
  <<"A", "B", "C", "D", "E", "F", "G", "H", "I", "J", "K", "L", "M", "N", "O",
    "P", "Q", "R", "S", "T", "U", "V", "W", "X", "Y", "Z">>

LowerCase ==
  <<"a", "b", "c", "d", "e", "f", "g", "h", "i", "j", "k", "l", "m", "n", "o",
    "p", "q", "r", "s", "t", "u", "v", "w", "x", "y", "z">>

\* String.prototype.toLowerCase
ToLowerCase(s) ==
  [i \in 1..Len(s) |->
     IF \E k \in 1..26 : UpperCase[k] = s[i]
     THEN LowerCase[CHOOSE k \in 1..26 : UpperCase[k] = s[i]]
     ELSE s[i]]

\* String.prototype.includes
Includes(s, sub) ==
  \E i \in 0..(Len(s) - Len(sub)) : SubSeq(s, i + 1, i + Len(sub)) = sub

\* the order localeCompare gives the characters of the file names
Collation ==
  <<"-", ".", "0", "1", "2", "3", "4", "5", "6", "7", "8", "9">> \o LowerCase

RECURSIVE LocaleCompare(_, _)
\* String.prototype.localeCompare: negative, 0 or positive
LocaleCompare(a, b) ==
  LET rank(c) == CHOOSE k \in 1..Len(Collation) : Collation[k] = c
  IN IF Len(a) = 0 /\ Len(b) = 0 THEN 0
     ELSE IF Len(a) = 0 THEN -1
     ELSE IF Len(b) = 0 THEN 1
     ELSE IF rank(ToLowerCase(a)[1]) < rank(ToLowerCase(b)[1]) THEN -1
     ELSE IF rank(ToLowerCase(a)[1]) > rank(ToLowerCase(b)[1]) THEN 1
     ELSE LocaleCompare(Tail(a), Tail(b))

\* useState('') of searchQuery and historySearch, useState('date'),
\* useState('desc')
InitialView ==
  [searchQuery |-> <<>>, historySearch |-> <<>>, sortBy |-> "date",
   sortOrder |-> "desc"]

\* the settings of the archive list the user moves between
Views ==
  {InitialView,
   [searchQuery |-> <<>>, historySearch |-> <<"A">>, sortBy |-> "name",
    sortOrder |-> "asc"]}

\* the comparator of processedHistory
ViewCompare(v, a, b) ==
  LET comp == IF v.sortBy = "date" THEN DateAscending(a, b)
              ELSE LocaleCompare(Field(a, "fileName").s, Field(b, "fileName").s)
  IN IF v.sortOrder = "asc" THEN comp ELSE 0 - comp

RECURSIVE SortView(_, _)
\* Array.prototype.sort with ViewCompare: stable
SortView(items, v) ==
  IF Len(items) <= 1 THEN items
  ELSE LET front == SortView(SubSeq(items, 1, Len(items) - 1), v)
           x == items[Len(items)]
           k == Cardinality({i \in 1..Len(front) :
                               \A j \in 1..i : ViewCompare(v, front[j], x) <= 0})
       IN SubSeq(front, 1, k) \o <<x>> \o SubSeq(front, k + 1, Len(front))

\* history.filter(h => h.fileName.toLowerCase().includes(...)).sort(...):
\* the list the archive shows, history itself is not touched
ProcessedHistory(h, v) ==
  SortView(SelectSeq(h, LAMBDA e :
                          Includes(ToLowerCase(Field(e, "fileName").s),
                                   ToLowerCase(v.historySearch))),
           v)

(***************************************************************************)
(* The App component: file selection and handleUpload.                     *)
(***************************************************************************)
Mp3File ==
  [name |-> Str(<<"a", ".", "m", "p", "3">>),
   type |-> Str(<<"a", "u", "d", "i", "o", "/", "m", "p", "e", "g">>)]

TxtFile ==
  [name |-> Str(<<"n", ".", "t", "x", "t">>),
   type |-> Str(<<"t", "e", "x", "t", "/", "p", "l", "a", "i", "n">>)]

\* the files the user can pick
Files == {Mp3File, TxtFile}

\* files of the kinds the picker lists (accept=".mp3,.mp4,.wav,.m4a") whose
\* type the browser does not know
Mp4Untyped == [name |-> Str(<<"v", ".", "m", "p", "4">>), type |-> Str(<<>>)]

M4aUntyped == [name |-> Str(<<"m", ".", "m", "4", "a">>), type |-> Str(<<>>)]

\* the files the user of the single-result client can pick
SingleFiles == Files \cup {Mp4Untyped, M4aUntyped}

\* src/README.md:104
ValidTypes ==
  { <<"a", "u", "d", "i", "o", "/", "m", "p", "e", "g">>,
    <<"a", "u", "d", "i", "o", "/", "m", "p", "3">>,
    <<"v", "i", "d", "e", "o", "/", "m", "p", "4">>,
    <<"a", "u", "d", "i", "o", "/", "w", "a", "v">>,
    <<"a", "u", "d", "i", "o", "/", "m", "4", "a">> }

\* src/README.md:111
InvalidFileText ==
  <<"P", "l", "e", "a", "s", "e", " ", "u", "p", "l", "o", "a", "d", " ", "a",
    " ", "v", "a", "l", "i", "d", " ", "M", "P", "3", " ", "o", "r", " ", "M",
    "P", "4", " ", "f", "i", "l", "e", ".">>

\* String.prototype.endsWith
EndsWith(s, suffix) ==
  /\ Len(s) >= Len(suffix)
  /\ SubSeq(s, Len(s) - Len(suffix) + 1, Len(s)) = suffix

\* a handleFileChange that takes whatever was picked
MutValidFile(f) == TRUE

\* src/README.md:106
ValidFile(f) ==
  \/ f.type.s \in ValidTypes
  \/ EndsWith(f.name.s, <<".", "m", "p", "3">>)
  \/ EndsWith(f.name.s, <<".", "m", "p", "4">>)

\* handleFileChange: the picker opens only while nothing is loading
HandleFileChange(f) ==
  /\ phase = "ready"
  /\ ~loading
  /\ IF variant = "single"
     THEN IF ValidFile(f)
          THEN /\ file' = f
               /\ error' = Null
               /\ result' = Null
          ELSE /\ error' = Str(InvalidFileText)
               /\ file' = Null
               /\ result' = result
     ELSE /\ file' = f
          /\ error' = Null
          /\ result' = result
  /\ UNCHANGED <<backend, variant, loading, uploadProgress, history, uploads,
                 storage>>
  /\ UNCHANGED mountVars
  /\ UNCHANGED serverVars

\* the upload button is rendered
UploadButtonShown ==
  /\ file # Null
  /\ ~loading
  /\ variant = "single" => result = Null

\* handleUpload up to its await: the flags are reset and the form is posted
HandleUpload(r) ==
  /\ phase = "ready"
  /\ UploadButtonShown
  /\ FreeSlot(r)
  /\ loading' = TRUE
  /\ error' = Null
  /\ uploadProgress' = 0
  /\ reqs' = [reqs EXCEPT ![r] =
                [IdleReq EXCEPT !.pc = "sent", !.from = "app", !.hasFile = TRUE,
                                !.originalname = file.name]]
  /\ UNCHANGED <<backend, variant, now, disk, file, result, history, storage>>
  /\ UNCHANGED mountVars

\* an upload of a run that follows at most MaxUploads of them
CountedUpload(r) ==
  /\ uploads < MaxUploads
  /\ uploads' = uploads + 1
  /\ HandleUpload(r)

\* an upload of a run over reloads
ClientUpload(r) ==
  /\ uploads < MaxClientUploads
  /\ uploads' = uploads + 1
  /\ HandleUpload(r)

\* an upload of a run that follows any number of them
UncountedUpload(r) ==
  /\ uploads' = uploads
  /\ HandleUpload(r)

\* an updater that adds the entry at the end
MutPrepend(entry, prev) == prev \o <<entry>>

\* prev => [entry, ...prev]
Prepend(entry, prev) == <<entry>> \o prev

\* a slice that keeps everything
MutSlice0(items, n) == items

\* { ...response.data, id: Date.now().toString(), fileName: file.name }
NewResult(data, t, name) ==
  [k \in DOMAIN data \cup {"id", "fileName"} |->
     IF k = "id" THEN Str(Digits(t))
     ELSE IF k = "fileName" THEN name
     ELSE data[k]]

\* src/unnamed/part_000:447  .slice(0, 20)
HistoryCap == 20

\* Array.prototype.slice(0, n)
Slice0(items, n) == SubSeq(items, 1, IF Len(items) < n THEN Len(items) ELSE n)

\* the message the catch block shows for an error response
ResponseErrorText(body) ==
  OrElse(Field(body, "message"),
         Str(IF variant = "archive" THEN ConnectionErrorArchive
             ELSE ProcessingErrorText))

\* a catch block that shows err.response?.data?.message and nothing else
MutNoResponseText == Undef

\* the message the catch block shows when no response came
NoResponseText ==
  Str(IF variant = "archive" THEN ConnectionErrorArchive
      ELSE IF variant = "capped" THEN ConnectionErrorCapped
      ELSE ProcessingErrorText)

\* handleUpload after its await: axios.post resolved (2xx) or rejected
\* with a response
UploadSettled(r) ==
  /\ reqs[r].pc = "done"
  /\ reqs[r].from = "app"
  /\ IF reqs[r].status = 200
     THEN /\ error' = error
          /\ CASE variant = "archive" ->
                    /\ result' = reqs[r].body
                    /\ history' = Prepend(reqs[r].body, history)
                    /\ file' = Null
               [] variant = "capped" ->
                    LET newResult ==
                          NewResult(reqs[r].body, now, reqs[r].originalname)
                    IN /\ result' = newResult
                       /\ history' = Slice0(Prepend(newResult, history),
                                             HistoryCap)
                       /\ file' = file
               [] OTHER ->
                    /\ result' = reqs[r].body
                    /\ history' = history
                    /\ file' = file
     ELSE /\ error' = ResponseErrorText(reqs[r].body)
          /\ UNCHANGED <<file, result, history>>
  /\ storage' = IF history' = history THEN storage ELSE PersistEffect(history')
  /\ loading' = FALSE
  /\ reqs' = [reqs EXCEPT ![r] = IdleReq]
  /\ UNCHANGED <<backend, variant, now, disk, uploadProgress, uploads>>
  /\ UNCHANGED mountVars

\* the request never reaches the server: axios.post rejects without a
\* response
UploadNoResponse(r) ==
  /\ reqs[r].pc = "sent"
  /\ reqs[r].from = "app"
  /\ error' = NoResponseText
  /\ loading' = FALSE
  /\ reqs' = [reqs EXCEPT ![r] = IdleReq]
  /\ UNCHANGED <<backend, variant, now, disk, file, result, uploadProgress,
                 history, uploads, storage>>
  /\ UNCHANGED mountVars

\* the events axios hands to onUploadProgress while the form is sent:
\* the bytes sent so far and, when the browser can compute the length,
\* the bytes to send
ProgressEvents ==
  [loaded : {0, FileBytes \div 3 + 1, FileBytes},
   total : {Num(FileBytes), Undef}]

\* Math.round(a / b) for integers a >= 0 and b > 0: halves go up
RoundQuotient(a, b) == (2 * a + b) \div (2 * b)

\* Math.round((p.loaded * 100) / (p.total || 100))
PercentCompleted(p) ==
  RoundQuotient(p.loaded * 100, OrElse(p.total, Num(100)).n)

\* onUploadProgress: setUploadProgress(percentCompleted)
UploadProgress(r, p) ==
  /\ reqs[r].pc = "sent"
  /\ reqs[r].from = "app"
  /\ uploadProgress' = PercentCompleted(p)
  /\ UNCHANGED <<backend, variant, file, loading, result, error, history,
                 uploads, storage>>
  /\ UNCHANGED mountVars
  /\ UNCHANGED serverVars

\* the archive's trash button: setHistory([])
ClearHistory ==
  /\ phase = "ready"
  /\ variant = "capped"
  /\ history # <<>>
  /\ history' = <<>>
  /\ storage' = Persisted(<<>>)
  /\ UNCHANGED <<backend, variant, file, loading, result, error,
                 uploadProgress, uploads>>
  /\ UNCHANGED mountVars
  /\ UNCHANGED serverVars

(***************************************************************************)
(* The App component: mount, reload, manifest sync, the archive list.      *)
(***************************************************************************)
\* the page is reloaded or closed and opened again: the component's state
\* and its requests' callbacks are gone, localStorage is not; the requests
\* of the closed page are followed no further
Reload ==
  /\ phase # "unmounted"
  /\ phase' = "unmounted"
  /\ file' = Null
  /\ loading' = FALSE
  /\ result' = Null
  /\ error' = Null
  /\ uploadProgress' = 0
  /\ history' = <<>>
  /\ pending' = <<>>
  /\ sync' = "idle"
  /\ note' = IdleNote
  /\ view' = InitialView
  /\ reqs' = [r \in Slots |-> IF reqs[r].from = "app" THEN IdleReq ELSE reqs[r]]
  /\ UNCHANGED <<backend, variant, now, disk, uploads, storage>>

\* the effects of the first render, in their order: the load effect reads
\* localStorage and queues setHistory(JSON.parse(saved)) (and starts the
\* manifest request), the persist effect writes the history of that
\* render, which is []
MountEffects ==
  /\ phase = "unmounted"
  /\ IF variant = "single"
     THEN /\ phase' = "ready"
          /\ UNCHANGED <<pending, storage, sync>>
     ELSE /\ IF storage.present
             THEN /\ pending' = storage.items
                  /\ phase' = "mounted"
             ELSE /\ pending' = <<>>
                  /\ phase' = "ready"
          /\ storage' = PersistEffect(history)
          /\ sync' = IF variant = "archive" THEN "primary" ELSE "idle"
  /\ UNCHANGED <<backend, variant, file, loading, result, error,
                 uploadProgress, history, uploads, note, view>>
  /\ UNCHANGED serverVars

\* the render the queued setHistory causes, and the persist effect after it
Rerender ==
  /\ phase = "mounted"
  /\ history' = pending
  /\ pending' = <<>>
  /\ storage' = PersistEffect(history')
  /\ phase' = "ready"
  /\ UNCHANGED <<backend, variant, file, loading, result, error,
                 uploadProgress, uploads, sync, note, view>>
  /\ UNCHANGED serverVars

\* fetchCloudManifest: the source asked answers with a manifest
ManifestArrives(data) ==
  /\ phase = "ready"
  /\ sync \in {"primary", "mirror"}
  /\ history' = SyncHistory(history, data)
  /\ storage' = PersistEffect(history')
  /\ sync' = "idle"
  /\ UNCHANGED <<backend, variant, file, loading, result, error,
                 uploadProgress, uploads, phase, pending, note, view>>
  /\ UNCHANGED serverVars

\* fetchCloudManifest: the source asked fails; the mirror is asked after
\* the primary, nothing after the mirror
ManifestFails ==
  /\ phase = "ready"
  /\ sync \in {"primary", "mirror"}
  /\ sync' = IF sync = "primary" THEN "mirror" ELSE "idle"
  /\ UNCHANGED <<backend, variant, file, loading, result, error,
                 uploadProgress, history, uploads, storage, phase, pending,
                 note, view>>
  /\ UNCHANGED serverVars

\* a fetchFullNote that asks the network for every item
MutIsRemote(item) == TRUE

\* item.isRemote
IsRemote(item) == "isRemote" \in DOMAIN item

\* fetchFullNote(history[i]) up to its await: a local entry is shown, a
\* remote one is requested from the primary source (one request at a time
\* is followed)
FetchFullNote(i) ==
  /\ phase = "ready"
  /\ variant = "archive"
  /\ i \in 1..Len(history)
  /\ IF ~IsRemote(history[i])
     THEN /\ result' = history[i]
          /\ UNCHANGED <<loading, note>>
     ELSE /\ note.pc = "idle"
          /\ loading' = TRUE
          /\ note' = [pc |-> "primary", id |-> Field(history[i], "id")]
          /\ result' = result
  /\ UNCHANGED <<backend, variant, file, error, uploadProgress, history,
                 uploads, storage, phase, pending, sync, view>>
  /\ UNCHANGED serverVars

\* fetchFullNote after an await: the source asked answers with the note
NoteArrives ==
  /\ note.pc \in {"primary", "mirror"}
  /\ result' = RemoteNote(note.id)
  /\ loading' = FALSE
  /\ note' = IdleNote
  /\ UNCHANGED <<backend, variant, file, error, uploadProgress, history,
                 uploads, storage, phase, pending, sync, view>>
  /\ UNCHANGED serverVars

\* fetchFullNote after an await: the source asked fails
NoteFails ==
  /\ note.pc \in {"primary", "mirror"}
  /\ IF note.pc = "primary"
     THEN /\ note' = [note EXCEPT !.pc = "mirror"]
          /\ UNCHANGED <<error, loading>>
     ELSE /\ note' = IdleNote
          /\ error' = Str(FetchFailedText)
          /\ loading' = FALSE
  /\ UNCHANGED <<backend, variant, file, result, uploadProgress, history,
                 uploads, storage, phase, pending, sync, view>>
  /\ UNCHANGED serverVars

\* the capped client's list item: setResult(h) for the i-th entry shown
SelectNote(i) ==
  /\ phase = "ready"
  /\ variant = "capped"
  /\ i \in 1..Len(ProcessedHistory(history, view))
  /\ result' = ProcessedHistory(history, view)[i]
  /\ UNCHANGED <<backend, variant, file, loading, error, uploadProgress,
                 history, uploads, storage>>
  /\ UNCHANGED mountVars
  /\ UNCHANGED serverVars

\* setHistorySearch, setSortBy, setSortOrder
SetView(v) ==
  /\ phase = "ready"
  /\ variant = "capped"
  /\ v # view
  /\ view' = v
  /\ UNCHANGED <<backend, variant, file, loading, result, error,
                 uploadProgress, history, uploads, storage, phase, pending,
                 sync, note>>
  /\ UNCHANGED serverVars

\* what the user types into the transcript search
Queries == {<<>>, <<"H", "I">>, <<"A">>, <<"O">>}

\* onChange={e => setSearchQuery(e.target.value)}
SetSearchQuery(q) ==
  /\ phase = "ready"
  /\ variant \in {"archive", "capped"}
  /\ q # view.searchQuery
  /\ view' = [view EXCEPT !.searchQuery = q]
  /\ UNCHANGED <<backend, variant, file, loading, result, error,
                 uploadProgress, history, uploads, storage, phase, pending,
                 sync, note>>
  /\ UNCHANGED serverVars

\* the filter callback of the transcript list: the archive client looks
\* at the text (part_001:276), the capped client at the text or the
\* speaker (part_000:502)
UtteranceMatches(u, q) ==
  \/ Includes(ToLowerCase(u.text.s), ToLowerCase(q))
  \/ /\ variant = "capped"
     /\ Includes(ToLowerCase(u.speaker.s), ToLowerCase(q))

\* result.utterances.filter(...) as the render evaluates it: reading
\* u.text.toLowerCase() of an utterance without a text throws, and the
\* render with it
FilteredUtterances(res, q) ==
  IF \E i \in 1..Len(res.utterances) : "text" \notin DOMAIN res.utterances[i]
  THEN [thrown |-> TRUE, shown |-> <<>>]
  ELSE [thrown |-> FALSE,
        shown |-> SelectSeq(res.utterances, LAMBDA u : UtteranceMatches(u, q))]

\* the payloads the provider answers with while the transcript search is
\* followed: two paragraphs of different speakers and texts, and an
\* alternative without paragraphs and without a transcript
SearchPayloads ==
  { [path |-> "ok", transcript |-> Str(<<"h", "i">>),
     paragraphs |->
       Arr(<<[speaker |-> Num(0), sentences |-> <<[text |-> Str(<<"h", "i">>)]>>],
             [speaker |-> Str(<<"A">>),
              sentences |-> <<[text |-> Str(<<"o", "k">>)]>>]>>),
     summaries |-> NoArr,
     metadata |-> [present |-> FALSE, duration |-> Undef, modelName |-> Undef]],
    [path |-> "ok", transcript |-> Undef, paragraphs |-> NoArr,
     summaries |-> NoArr,
     metadata |-> [present |-> FALSE, duration |-> Undef, modelName |-> Undef]] }

(***************************************************************************)
(* Specifications.                                                         *)
(***************************************************************************)
Init ==
  /\ backend \in Backends
  /\ variant \in Variants
  /\ now = 0
  /\ disk = {}
  /\ reqs = [r \in Slots |-> IdleReq]
  /\ file = Null
  /\ loading = FALSE
  /\ result = Null
  /\ error = Null
  /\ uploadProgress = 0
  /\ history = <<>>
  /\ uploads = 0
  /\ storage = IF variant = "single" THEN NoStorage ELSE Persisted(<<>>)
  /\ phase = "ready"
  /\ pending = <<>>
  /\ sync = "idle"
  /\ note = IdleNote
  /\ view = InitialView

Next ==
  \/ \E f \in Files : HandleFileChange(f)
  \/ \E r \in Slots : CountedUpload(r)
  \/ \E r \in Slots : Multer(r)
  \/ \E r \in Slots : Handler(r)
  \/ \E r \in Slots, raw \in SysPayloads : ProviderResult(r, raw)
  \/ \E r \in Slots, err \in ProviderErrors : ProviderError(r, err)
  \/ \E r \in Slots : ProviderThrow(r)
  \/ \E r \in Slots : UploadSettled(r)
  \/ \E r \in Slots : UploadNoResponse(r)
  \/ ClearHistory
  \/ Tick

\* one App and the route that serves it
Spec == Init /\ [][Next]_vars

\* what the event loops guarantee: a request that arrived is stored and
\* handled, a response that arrived is taken by handleUpload. Nothing makes
\* the provider answer.
Fairness ==
  \A r \in Slots :
    /\ WF_vars(Multer(r))
    /\ WF_vars(Handler(r))
    /\ WF_vars(UploadSettled(r))

\* the App and the route, every step that is due being taken
SpecLive == Spec /\ Fairness

InitServer == Init /\ variant = "archive"

NextServer ==
  \/ \E r \in Slots, hasFile \in BOOLEAN : OtherRequest(r, hasFile, Mp3File.name)
  \/ \E r \in Slots : Multer(r)
  \/ \E r \in Slots : Handler(r)
  \/ \E r \in Slots, raw \in SysPayloads : ProviderResult(r, raw)
  \/ \E r \in Slots, err \in ProviderErrors : ProviderError(r, err)
  \/ \E r \in Slots : ProviderThrow(r)
  \/ \E r \in Slots : OtherDone(r)
  \/ Tick

\* the route serving the concurrent requests of other clients
SpecServer == InitServer /\ [][NextServer]_vars

\* a first visit of a client that keeps a history, the archive client
\* served by api/index.js and the capped one by server.js: nothing saved,
\* nothing rendered yet
InitClient ==
  /\ \/ variant = "archive" /\ backend = "api"
     \/ variant = "capped" /\ backend = "server"
  /\ now = 0
  /\ disk = {}
  /\ reqs = [r \in Slots |-> IdleReq]
  /\ file = Null
  /\ loading = FALSE
  /\ result = Null
  /\ error = Null
  /\ uploadProgress = 0
  /\ history = <<>>
  /\ uploads = 0
  /\ storage = NoStorage
  /\ phase = "unmounted"
  /\ pending = <<>>
  /\ sync = "idle"
  /\ note = IdleNote
  /\ view = InitialView

\* a millisecond passes, in the runs that follow the history
ClientTick == now < MaxClientClock /\ Tick

NextClient ==
  \/ Reload
  \/ MountEffects
  \/ Rerender
  \/ \E data \in Manifests : ManifestArrives(data)
  \/ ManifestFails
  \/ \E i \in 1..(MaxClientUploads + 2) : FetchFullNote(i)
  \/ NoteArrives
  \/ NoteFails
  \/ \E i \in 1..MaxClientUploads : SelectNote(i)
  \/ \E v \in Views : SetView(v)
  \/ HandleFileChange(Mp3File)
  \/ \E r \in Slots : ClientUpload(r)
  \/ \E r \in Slots : Multer(r)
  \/ \E r \in Slots : Handler(r)
  \/ \E r \in Slots : ProviderResult(r, DiarizedPayload)
  \/ \E r \in Slots : ProviderThrow(r)
  \/ \E r \in Slots : UploadSettled(r)
  \/ ClearHistory
  \/ ClientTick

\* a client that keeps a history, over its reloads, and the route
SpecClient == InitClient /\ [][NextClient]_vars

\* the capped client served by server.js, mounted on an empty history
InitCap == Init /\ variant = "capped" /\ backend = "server"

NextCap ==
  \/ HandleFileChange(Mp3File)
  \/ \E r \in Slots : UncountedUpload(r)
  \/ \E r \in Slots : Multer(r)
  \/ \E r \in Slots : Handler(r)
  \/ \E r \in Slots : ProviderResult(r, DiarizedPayload)
  \/ \E r \in Slots : ProviderThrow(r)
  \/ \E r \in Slots : UploadSettled(r)
  \/ ClearHistory
  \/ Reload
  \/ MountEffects
  \/ Rerender
  \/ ClientTick

\* the capped client over any number of uploads, clears and reloads
SpecCap == InitCap /\ [][NextCap]_vars

\* the single-result client of README.md, mounted
InitSingle == Init /\ variant = "single"

NextSingle ==
  \/ \E f \in SingleFiles : HandleFileChange(f)
  \/ \E r \in Slots : CountedUpload(r)
  \/ \E r \in Slots : Multer(r)
  \/ \E r \in Slots : Handler(r)
  \/ \E r \in Slots, raw \in SysPayloads : ProviderResult(r, raw)
  \/ \E r \in Slots : ProviderThrow(r)
  \/ \E r \in Slots : UploadSettled(r)
  \/ \E r \in Slots : UploadNoResponse(r)

\* the single-result client and the route that serves it
SpecSingle == InitSingle /\ [][NextSingle]_vars

\* a client with a transcript search, mounted
InitSearch == Init /\ variant \in {"archive", "capped"}

NextSearch ==
  \/ HandleFileChange(Mp3File)
  \/ \E r \in Slots : CountedUpload(r)
  \/ \E r \in Slots : Multer(r)
  \/ \E r \in Slots : Handler(r)
  \/ \E r \in Slots, raw \in SearchPayloads : ProviderResult(r, raw)
  \/ \E r \in Slots : ProviderThrow(r)
  \/ \E r \in Slots : UploadSettled(r)
  \/ \E q \in Queries : SetSearchQuery(q)

\* the uploads of one App and its transcript search
SpecSearch == InitSearch /\ [][NextSearch]_vars

NextProgress ==
  \/ HandleFileChange(Mp3File)
  \/ \E r \in Slots : CountedUpload(r)
  \/ \E r \in Slots, p \in ProgressEvents : UploadProgress(r, p)
  \/ \E r \in Slots : Multer(r)
  \/ \E r \in Slots : Handler(r)
  \/ \E r \in Slots : ProviderResult(r, DiarizedPayload)
  \/ \E r \in Slots : ProviderThrow(r)
  \/ \E r \in Slots : UploadSettled(r)
  \/ \E r \in Slots : UploadNoResponse(r)

\* the uploads of one App, with the progress events of each
SpecProgress == Init /\ [][NextProgress]_vars

\* one request of each backend waiting on the provider
InitNorm ==
  /\ backend \in Backends
  /\ variant = "archive"
  /\ now = 0
  /\ disk = IF backend = "server" THEN {UploadPath(0, Mp3File.name)} ELSE {}
  /\ reqs = [r \in Slots |->
               IF r = 1
               THEN [IdleReq EXCEPT
                       !.pc = "awaiting", !.from = "other", !.hasFile = TRUE,
                       !.originalname = Mp3File.name,
                       !.path = IF backend = "server"
                                THEN UploadPath(0, Mp3File.name) ELSE Undef]
               ELSE IdleReq]
  /\ file = Null
  /\ loading = FALSE
  /\ result = Null
  /\ error = Null
  /\ uploadProgress = 0
  /\ history = <<>>
  /\ uploads = 0
  /\ storage = Persisted(<<>>)
  /\ phase = "ready"
  /\ pending = <<>>
  /\ sync = "idle"
  /\ note = IdleNote
  /\ view = InitialView

\* the provider answers the waiting request with any payload
NextNorm ==
  /\ reqs[1].pc = "awaiting"
  /\ \E raw \in Payloads : ProviderResult(1, raw)

\* the reshaping of every payload within the bounds, by both backends
SpecNorm == InitNorm /\ [][NextNorm]_vars

(***************************************************************************)
(* Properties.                                                             *)
(***************************************************************************)
\* the request of slot r was answered with a record
Answered200(r) == reqs[r].pc = "done" /\ reqs[r].status = 200

\* the paragraph array the provider sent, when it sent a non-empty one
HasParagraphs(raw) == raw.paragraphs.t = "array" /\ Len(raw.paragraphs.a) > 0

\* C1: whenever the provider's payload holds a non-empty paragraph
\* sequence, the route (either backend) answers with as many utterances as
\* there are paragraphs, the i-th utterance being the one made of the i-th
\* paragraph.
C1_UtterancesFollowParagraphs ==
  \A r \in Slots :
    (reqs[r].pc = "done" /\ HasAlternative(reqs[r].raw)
       /\ HasParagraphs(reqs[r].raw)) =>
      /\ reqs[r].status = 200
      /\ Len(reqs[r].body.utterances) = Len(reqs[r].raw.paragraphs.a)
      /\ \A i \in 1..Len(reqs[r].raw.paragraphs.a) :
           reqs[r].body.utterances[i]
             = ParagraphToUtterance(reqs[r].raw.paragraphs.a[i])

\* C1 witness: server.js answered a payload of two different paragraphs
C1_Witness ==
  /\ backend = "server"
  /\ Answered200(1)
  /\ HasParagraphs(reqs[1].raw)
  /\ Len(reqs[1].raw.paragraphs.a) = 2
  /\ reqs[1].raw.paragraphs.a[1] # reqs[1].raw.paragraphs.a[2]

\* C2: whenever the payload has no paragraphs (no key, or an empty
\* sequence), utterances is one entry with speaker "Speaker" whose text is
\* the flat transcript, and the empty string when the transcript is absent.
C2_FallbackUtterance ==
  \A r \in Slots :
    (reqs[r].pc = "done" /\ HasAlternative(reqs[r].raw)
       /\ ~HasParagraphs(reqs[r].raw)) =>
      /\ reqs[r].status = 200
      /\ Len(reqs[r].body.utterances) = 1
      /\ Field(reqs[r].body.utterances[1], "speaker")
           = Str(<<"S", "p", "e", "a", "k", "e", "r">>)
      /\ Field(reqs[r].body.utterances[1], "text")
           = IF reqs[r].raw.transcript = Undef THEN Str(<<>>)
             ELSE reqs[r].raw.transcript

\* C3: every record sent with a 200 has at least one utterance.
C3_UtterancesNeverEmpty ==
  \A r \in Slots : Answered200(r) => Len(reqs[r].body.utterances) >= 1

\* C3 witness: a record was sent for a payload whose paragraph sequence is
\* empty
C3_Witness ==
  /\ Answered200(1)
  /\ reqs[1].raw.paragraphs = Arr(<<>>)

\* "[" + speaker + "]: " + text, on an utterance as the client reads it
RenderedLine(u) ==
  <<"[">> \o JsToString(Field(u, "speaker")) \o <<"]", ":", " ">>
    \o JsToString(Field(u, "text"))

RECURSIVE Rendered(_)
\* the lines of the utterances in order, a blank line between two of them
Rendered(us) ==
  IF Len(us) = 0 THEN <<>>
  ELSE IF Len(us) = 1 THEN RenderedLine(us[1])
  ELSE RenderedLine(us[1]) \o <<"\n", "\n">> \o Rendered(Tail(us))

\* C4: in every record sent, transcript is the utterances of that record
\* rendered as "[speaker]: text" lines joined by blank lines, in order.
C4_TranscriptFromUtterances ==
  \A r \in Slots :
    Answered200(r) =>
      reqs[r].body.transcript = Str(Rendered(reqs[r].body.utterances))

\* C4 witness: a record of two utterances was sent
C4_Witness ==
  /\ Answered200(1)
  /\ Len(reqs[1].body.utterances) = 2

\* C5: whenever the payload lacks results.channels[0].alternatives[0], the
\* request is answered with a 5xx and the body holds no field of a record.
C5_MalformedPayloadFails ==
  \A r \in Slots :
    (reqs[r].pc = "done" /\ reqs[r].raw.path \in BrokenPaths) =>
      /\ reqs[r].status >= 500
      /\ reqs[r].status <= 599
      /\ DOMAIN reqs[r].body
           \cap {"id", "fileName", "transcript", "utterances", "summary",
                 "bullets", "metadata"} = {}

\* C5 witness: a payload without channels was answered
C5_Witness ==
  /\ reqs[1].pc = "done"
  /\ reqs[1].raw.path = "noChannels"
  /\ reqs[1].status = 500

\* C6: in server.js, once a request that stored a file is answered, the
\* file is gone from the uploads directory.
C6_TempFileDeleted ==
  \A r \in Slots :
    (backend = "server" /\ reqs[r].pc = "done" /\ reqs[r].path # Undef) =>
      reqs[r].path \notin disk

\* C7: no two requests answered with a record carry the same id, and no
\* two entries of the App's history do (of the records that carry an id).
C7_UniqueIds ==
  /\ \A r1, r2 \in Slots :
       (r1 # r2 /\ Answered200(r1) /\ Answered200(r2)
          /\ "id" \in DOMAIN reqs[r1].body /\ "id" \in DOMAIN reqs[r2].body) =>
         reqs[r1].body.id # reqs[r2].body.id
  /\ \A i, j \in 1..Len(history) :
       (i # j /\ "id" \in DOMAIN history[i] /\ "id" \in DOMAIN history[j]) =>
         history[i].id # history[j].id

\* C8: when the App takes a record out of a response that carries an id,
\* the record it shows and the record it puts into history carry that id.
C8_IdKept ==
  [][\A r \in Slots :
       (Answered200(r) /\ reqs[r].from = "app" /\ "id" \in DOMAIN reqs[r].body
          /\ reqs'[r].pc = "idle") =>
         /\ Field(result', "id") = reqs[r].body.id
         /\ variant # "single" => Field(history'[1], "id") = reqs[r].body.id]_vars

\* C9: every record sent with a 200 has exactly the canonical fields, and
\* every entry of the App's history has an id, a fileName and a metadata.
C9_CanonicalFields ==
  /\ \A r \in Slots :
       Answered200(r) =>
         /\ DOMAIN reqs[r].body
              = {"id", "fileName", "transcript", "utterances", "summary",
                 "bullets", "metadata"}
         /\ DOMAIN reqs[r].body.metadata = {"duration", "model", "processedAt"}
  /\ \A i \in 1..Len(history) :
       {"id", "fileName", "metadata"} \subseteq DOMAIN history[i]

\* the payload names no usable summary: summaries is absent, or its first
\* entry's summary is absent or empty
NoSummaryGiven(raw) ==
  \/ raw.summaries.t = "undefined"
  \/ /\ raw.summaries.t = "array"
     /\ Len(raw.summaries.a) >= 1
     /\ raw.summaries.a[1].summary \in {Undef, Str(<<>>)}

\* C10: a record sent for a payload that names no usable summary has the
\* route's sentinel as its summary, and no record sent has the empty string
\* as its summary.
C10_SummarySentinel ==
  \A r \in Slots :
    Answered200(r) =>
      /\ NoSummaryGiven(reqs[r].raw) =>
           reqs[r].body.summary
             = Str(IF backend = "api" THEN ApiSentinel ELSE ServerSentinel)
      /\ reqs[r].body.summary # Str(<<>>)

\* C10 witness: a record was sent for a payload whose first summary is ""
C10_Witness ==
  /\ Answered200(1)
  /\ reqs[1].raw.summaries = Arr(<<[summary |-> Str(<<>>)]>>)

\* C11: for a payload whose summaries are absent every backend answers
\* with the summary "Summary not available." (the same text in both
\* routes), and for a payload whose first summary is a non-empty text it
\* answers with that text.
C11_OneSentinel ==
  \A r \in Slots :
    Answered200(r) =>
      /\ reqs[r].raw.summaries.t = "undefined" =>
           reqs[r].body.summary
             = Str(<<"S", "u", "m", "m", "a", "r", "y", " ", "n", "o", "t",
                     " ", "a", "v", "a", "i", "l", "a", "b", "l", "e", ".">>)
      /\ (/\ reqs[r].raw.summaries.t = "array"
          /\ Len(reqs[r].raw.summaries.a) >= 1
          /\ Truthy(reqs[r].raw.summaries.a[1].summary)) =>
           reqs[r].body.summary = reqs[r].raw.summaries.a[1].summary

\* C12: whenever the provider answers with an error object, the request is
\* answered with a 500 whose body ends with the provider's message and
\* holds no field of a record.
C12_ProviderErrorPropagated ==
  \A r \in Slots :
    (reqs[r].pc = "done" /\ reqs[r].raw.path = "error") =>
      /\ reqs[r].status = 500
      /\ EndsWith(Field(reqs[r].body, "error").s,
                  JsToString(reqs[r].raw.message))
      /\ DOMAIN reqs[r].body
           \cap {"id", "fileName", "transcript", "utterances", "summary",
                 "bullets", "metadata"} = {}

\* C12 witness: server.js answered a request whose provider call returned
\* an error object
C12_Witness ==
  /\ backend = "server"
  /\ reqs[1].pc = "done"
  /\ reqs[1].raw.path = "error"
  /\ reqs[1].raw.message = Str(<<"b", "a", "d">>)

\* the body a request gets when the route handles it alone: the record
\* made of the payload the provider returned for it
AloneBody(r) ==
  JsonBody(TranscriptionData(backend, reqs[r].raw, reqs[r].originalname, 0))

\* C13: under every interleaving of two requests, a request whose provider
\* call returned a well-formed payload is answered with the utterances,
\* the transcript and the summary it gets when handled alone.
C13_NoInteraction ==
  \A r \in Slots :
    (reqs[r].pc = "done" /\ HasAlternative(reqs[r].raw)) =>
      /\ reqs[r].status = 200
      /\ reqs[r].body.utterances = AloneBody(r).utterances
      /\ reqs[r].body.transcript = AloneBody(r).transcript
      /\ reqs[r].body.summary = AloneBody(r).summary

\* C15: in every record sent with a metadata, metadata.duration is the
\* provider's metadata.duration when that is a number, and 0 when it is
\* absent or is not a number.
C15_DurationNumeric ==
  \A r \in Slots :
    (Answered200(r) /\ "metadata" \in DOMAIN reqs[r].body) =>
      reqs[r].body.metadata.duration
        = IF /\ reqs[r].raw.metadata.present
             /\ reqs[r].raw.metadata.duration.t = "number"
          THEN reqs[r].raw.metadata.duration
          ELSE Num(0)

\* the text of a speaker id put into a string
IdText(id) == IF id.t = "number" THEN Digits(id.n) ELSE id.s

RECURSIVE SpaceSeparated(_)
\* the sentence texts in order, one space between two of them
SpaceSeparated(sentences) ==
  IF Len(sentences) = 0 THEN <<>>
  ELSE IF Len(sentences) = 1 THEN sentences[1].text.s
  ELSE sentences[1].text.s \o <<" ">> \o SpaceSeparated(Tail(sentences))

\* C16: in every record made of paragraphs, the utterance of each
\* paragraph has the speaker "Speaker " followed by the paragraph's
\* speaker id (a number or a string) and the text made of the paragraph's
\* sentence texts in order with exactly one space between them.
C16_SpeakerAndText ==
  \A r \in Slots :
    (Answered200(r) /\ HasParagraphs(reqs[r].raw)) =>
      \A i \in 1..Len(reqs[r].raw.paragraphs.a) :
        LET p == reqs[r].raw.paragraphs.a[i]
            u == reqs[r].body.utterances[i]
        IN /\ Field(u, "speaker")
                = Str(<<"S", "p", "e", "a", "k", "e", "r", " ">>
                        \o IdText(p.speaker))
           /\ Field(u, "text") = Str(SpaceSeparated(p.sentences))

\* C16 witness: a record was sent for a paragraph of two different
\* sentences spoken by the string id "A" followed by a paragraph of the
\* numeric id 0
C16_Witness ==
  /\ Answered200(1)
  /\ HasParagraphs(reqs[1].raw)
  /\ Len(reqs[1].raw.paragraphs.a) = 2
  /\ reqs[1].raw.paragraphs.a[1].speaker = Str(<<"A">>)
  /\ Len(reqs[1].raw.paragraphs.a[1].sentences) = 2
  /\ reqs[1].raw.paragraphs.a[1].sentences[1]
       # reqs[1].raw.paragraphs.a[1].sentences[2]
  /\ reqs[1].raw.paragraphs.a[2].speaker = Num(0)

\* C17: a request the route is waiting on the provider for is eventually
\* answered, and an App that is loading eventually stops loading.
C17_EventuallyAnswered ==
  /\ \A r \in Slots : (reqs[r].pc = "awaiting") ~> (reqs[r].pc = "done")
  /\ loading ~> ~loading

\* handleUpload of slot r takes its response in this step
TakesResponse(r) ==
  /\ reqs[r].pc = "done"
  /\ reqs[r].from = "app"
  /\ reqs'[r].pc = "idle"
  /\ phase' = "ready"

\* C18: in the clients that keep a history, a handleUpload whose request
\* was answered with a record puts exactly one entry, made of that record,
\* in front of the entries history had (which keep their order, the last
\* one leaving when the capped history was full), and a handleUpload whose
\* request failed leaves history as it was.
C18_OneRecordPerUpload ==
  [][\A r \in Slots :
       /\ (variant # "single" /\ TakesResponse(r) /\ reqs[r].status = 200) =>
            /\ Len(history')
                 = IF variant = "capped" /\ Len(history) = 20 THEN 20
                   ELSE Len(history) + 1
            /\ history'[1].transcript = reqs[r].body.transcript
            /\ history'[1].utterances = reqs[r].body.utterances
            /\ \A i \in 2..Len(history') : history'[i] = history[i - 1]
       /\ (variant # "single" /\ TakesResponse(r) /\ reqs[r].status # 200) =>
            history' = history
       /\ (variant # "single" /\ reqs[r].pc = "sent" /\ reqs[r].from = "app"
             /\ reqs'[r].pc = "idle") =>
            history' = history]_vars

\* C18 witness: the archive client took a second record while the first
\* one, a different record, was in its history
C18_Witness ==
  /\ variant = "archive"
  /\ Len(history) = 2
  /\ history[1] # history[2]
  /\ result = history[1]
  /\ ~loading

\* the notes the client holds as saved: localStorage's before the mount
\* effects have run, the ones the load effect read and queued between the
\* effects and the render they cause, history's (as JSON keeps them) after
SavedNotes ==
  CASE phase = "unmounted" -> storage.items
    [] phase = "mounted" -> pending
    [] OTHER -> JsonHistory(history)

\* C14: across a reload, the mount effects and the render that follows
\* them, the saved notes stay what they were: the history an App shows
\* once it is mounted is the one persisted before the reload, and the
\* mount-time write of the empty history loses none of them.
C14_HistorySurvivesReload ==
  [][(phase # "ready" \/ phase' # "ready") => SavedNotes' = SavedNotes]_vars

\* how many entries of the history h are the record e, field by field
Copies(h, e) == Cardinality({i \in 1..Len(h) : h[i] = e})

\* the entry e is the one a capped history that is full drops next
Evicted(e) ==
  /\ variant = "capped"
  /\ Len(history) = 20
  /\ history[20] = e

\* C20: while the App is mounted, every step (selecting an entry, changing
\* the search or the sort of the list, a manifest sync, an upload taken or
\* failed) leaves each entry of history in history with every field as it
\* was; entries leave only when the capped history is cleared or, being
\* full, drops its last entry.
C20_EntriesImmutable ==
  [][(phase = "ready" /\ phase' = "ready") =>
       \/ history' = history
       \/ variant = "capped" /\ history' = <<>>
       \/ \A i \in 1..Len(history) :
            Copies(history', history[i])
              >= Copies(history, history[i])
                   - (IF Evicted(history[i]) THEN 1 ELSE 0)]_vars

\* C20 witness: the archive client holds a record of its own next to the
\* stubs a manifest sync added, and shows the note fetched for a stub
C20_Witness ==
  /\ variant = "archive"
  /\ phase = "ready"
  /\ \E i \in 1..Len(history) : "isRemote" \notin DOMAIN history[i]
  /\ \E i \in 1..Len(history) :
       /\ "isRemote" \in DOMAIN history[i]
       /\ result = RemoteNote(history[i].id)

RECURSIVE DigitsValue(_)
\* the number a string of decimal digits writes
DigitsValue(s) ==
  IF Len(s) = 0 THEN 0
  ELSE 10 * DigitsValue(SubSeq(s, 1, Len(s) - 1))
         + (CHOOSE n \in 0..9 : DigitChar[n + 1] = s[Len(s)])

\* C19: in the capped client, from an empty history on, history never
\* holds more than 20 records and is ordered newest first (by the clock
\* reading its ids are made of); an upload taken puts its record first and
\* moves the others down by one, so that a full history loses exactly its
\* last, oldest record.
C19_CappedNewestFirst ==
  [][/\ Len(history') <= 20
     /\ \A i \in 1..(Len(history') - 1) :
          DigitsValue(history'[i].id.s) >= DigitsValue(history'[i + 1].id.s)
     /\ \A r \in Slots :
          (TakesResponse(r) /\ reqs[r].status = 200) =>
            /\ history'[1].id = Str(Digits(now))
            /\ Len(history') = IF Len(history) = 20 THEN 20 ELSE Len(history) + 1
            /\ \A i \in 2..Len(history') : history'[i] = history[i - 1]]_vars

\* C19 witness: a record made at clock 1 is about to be taken into a full
\* history whose oldest record was made at clock 0
C19_Witness ==
  /\ variant = "capped"
  /\ Len(history) = 20
  /\ history[20].id = Str(Digits(0))
  /\ now = 1
  /\ \E r \in Slots : Answered200(r) /\ reqs[r].from = "app"

\* C23: a request the handler has answered has had exactly one response,
\* a 400 when it carries no file and a 200 with a record or a 500 with
\* the error otherwise; a request not answered yet has had none.
C23_AnsweredExactlyOnce ==
  \A r \in Slots :
    /\ reqs[r].pc = "done" =>
         /\ reqs[r].responses = 1
         /\ ~reqs[r].hasFile => reqs[r].status = 400
         /\ reqs[r].hasFile => reqs[r].status \in {200, 500}
         /\ reqs[r].status = 200 => "utterances" \in DOMAIN reqs[r].body
         /\ reqs[r].status = 500 => "error" \in DOMAIN reqs[r].body
    /\ reqs[r].pc # "done" => reqs[r].responses = 0

\* C23 witness: a request without a file and a request with one have both
\* been answered, the second one with a record
C23_Witness ==
  /\ reqs[1].pc = "done"
  /\ ~reqs[1].hasFile
  /\ reqs[1].responses = 1
  /\ Answered200(2)
  /\ reqs[2].responses = 1

\* C24: a request without a file part never waits on the provider, has no
\* stored path and no payload, and the step that handles it answers 400
\* "No file uploaded" and leaves the uploads directory as it was.
C24_NoFileRejectedFirst ==
  [][\A r \in Slots :
       /\ (reqs'[r].pc # "idle" /\ ~reqs'[r].hasFile) =>
            /\ reqs'[r].pc # "awaiting"
            /\ reqs'[r].raw = NoRaw
            /\ reqs'[r].path = Undef
       /\ (reqs[r].pc = "received" /\ ~reqs[r].hasFile /\ reqs'[r] # reqs[r]) =>
            /\ reqs'[r].pc = "done"
            /\ reqs'[r].status = 400
            /\ reqs'[r].body
                 = [message |-> Str(<<"N", "o", " ", "f", "i", "l", "e", " ",
                                      "u", "p", "l", "o", "a", "d", "e", "d">>)]
            /\ disk' = disk]_vars

\* C24 witness: server.js has answered a request without a file while the
\* file of another request is stored
C24_Witness ==
  /\ backend = "server"
  /\ \E r \in Slots :
       /\ reqs[r].pc = "done"
       /\ ~reqs[r].hasFile
       /\ reqs[r].status = 400
  /\ disk # {}

\* the route that is not deployed
OtherBackend == IF backend = "api" THEN "server" ELSE "api"

\* C30: for every payload, the deployed route fails with a 500 exactly
\* when the path to alternatives[0] is broken (whichever route it is), and
\* otherwise answers with the utterances and the transcript the other
\* route makes of the same payload.
C30_BackendsAgree ==
  \A r \in Slots :
    (reqs[r].pc = "done" /\ reqs[r].raw.path \in BrokenPaths \cup {"ok"}) =>
      IF reqs[r].raw.path = "ok"
      THEN /\ reqs[r].status = 200
           /\ reqs[r].body.utterances
                = JsonBody(TranscriptionData(OtherBackend, reqs[r].raw,
                                             reqs[r].originalname, now)).utterances
           /\ reqs[r].body.transcript
                = TranscriptionData(OtherBackend, reqs[r].raw,
                                    reqs[r].originalname, now).transcript
      ELSE reqs[r].status = 500

\* C30 witness: server.js answered a payload without paragraphs and
\* without a transcript, where the fallback utterance has no text
C30_Witness ==
  /\ backend = "server"
  /\ Answered200(1)
  /\ reqs[1].raw.paragraphs = NoArr
  /\ reqs[1].raw.transcript = Undef

\* C28: uploadProgress is an integer from 0 to 100 in every state, whatever
\* progress events the upload has delivered, with or without a total.
C28_ProgressPercent ==
  uploadProgress \in 0..100

\* the file is of an allowed MIME type or its name ends in .mp3 or .mp4
Allowed(f) ==
  \/ f.type.s \in ValidTypes
  \/ EndsWith(f.name.s, <<".", "m", "p", "3">>)
  \/ EndsWith(f.name.s, <<".", "m", "p", "4">>)

\* C29: in the single-result client the selected file is always an
\* allowed one; a step that selects sets either an allowed file with error
\* and result cleared, or no file with the error "Please upload a valid
\* MP3 or MP4 file."; and an upload starts only from a state with a file
\* selected, nothing loading and no result shown.
C29_OnlyValidatedFiles ==
  [][variant' = "single" =>
       /\ file' # Null => Allowed(file')
       /\ (reqs' = reqs /\ <<file', error', result'>> # <<file, error, result>>) =>
            \/ /\ file' # Null
               /\ error' = Null
               /\ result' = Null
            \/ /\ file' = Null
               /\ error'
                    = Str(<<"P", "l", "e", "a", "s", "e", " ", "u", "p", "l",
                            "o", "a", "d", " ", "a", " ", "v", "a", "l", "i",
                            "d", " ", "M", "P", "3", " ", "o", "r", " ", "M",
                            "P", "4", " ", "f", "i", "l", "e", ".">>)
               /\ result' = result
       /\ \A r \in Slots :
            (reqs[r].pc = "idle" /\ reqs'[r].pc = "sent" /\ reqs'[r].from = "app") =>
              /\ file # Null
              /\ ~loading
              /\ result = Null]_vars

\* C29 witness: after an upload, a file known by its name only is
\* selected and the result of the upload is cleared
C29_Witness ==
  /\ variant = "single"
  /\ uploads >= 1
  /\ file = [name |-> Str(<<"v", ".", "m", "p", "4">>), type |-> Str(<<>>)]
  /\ result = Null
  /\ error = Null
  /\ ~loading

\* C25: no upload starts without a selected file; the step in which
\* handleUpload starts its request leaves file, result and history alone;
\* the step in which the request settles leaves loading false, and when
\* the request failed (an error response, or no response) it leaves a
\* non-empty error message and file, result and history as they were.
C25_FailedUploadKeepsState ==
  [][\A r \in Slots :
       /\ (reqs[r].pc = "idle" /\ reqs'[r].pc = "sent" /\ reqs'[r].from = "app") =>
            /\ file # Null
            /\ file' = file
            /\ result' = result
            /\ history' = history
       /\ (reqs[r].from = "app" /\ reqs[r].pc # "idle" /\ reqs'[r].pc = "idle") =>
            /\ ~loading'
            /\ (reqs[r].pc # "done" \/ reqs[r].status # 200) =>
                 /\ error'.t = "string"
                 /\ error'.s # <<>>
                 /\ file' = file
                 /\ result' = result
                 /\ history' = history]_vars

\* C25 witness: the capped client shows the record of a first upload and
\* the error of a second one, the first record being all of its history
C25_Witness ==
  /\ variant = "capped"
  /\ uploads = 2
  /\ \A r \in Slots : reqs[r].pc = "idle"
  /\ ~loading
  /\ error # Null
  /\ file # Null
  /\ Len(history) = 1
  /\ result = history[1]

\* C22: in the archive client, loading is true in every state in which an
\* upload request of the App or a remote-note request is in flight (so
\* that the upload button, shown under file && !loading, cannot start an
\* upload while one is pending).
C22_LoadingWhileInFlight ==
  variant = "archive" =>
    ((\/ \E r \in Slots : reqs[r].from = "app" /\ reqs[r].pc # "idle"
      \/ note.pc # "idle")
       => loading)

\* C27: every step of fetchFullNote in the archive client is one of
\* these: a non-remote entry becomes the result, with no request and
\* loading as it was; a remote entry is requested from the primary source
\* and loading becomes true; the source asked answers, the note of the
\* requested id becomes the result and loading becomes false; the primary
\* source fails and the mirror is asked; the mirror fails, the error is
\* "Could not fetch full note details.", the result stays and loading
\* becomes false.
C27_FetchFullNoteSteps ==
  [][(/\ variant = "archive"
      /\ phase = "ready"
      /\ phase' = "ready"
      /\ reqs' = reqs
      /\ <<result', note', loading'>> # <<result, note, loading>>) =>
       \/ /\ \E i \in 1..Len(history) :
                /\ "isRemote" \notin DOMAIN history[i]
                /\ result' = history[i]
          /\ note' = note
          /\ loading' = loading
          /\ error' = error
       \/ /\ \E i \in 1..Len(history) :
                /\ "isRemote" \in DOMAIN history[i]
                /\ note' = [pc |-> "primary", id |-> history[i].id]
          /\ note.pc = "idle"
          /\ loading'
          /\ result' = result
          /\ error' = error
       \/ /\ note.pc \in {"primary", "mirror"}
          /\ note'.pc = "idle"
          /\ Field(result', "id") = note.id
          /\ "utterances" \in DOMAIN result'
          /\ ~loading'
          /\ error' = error
       \/ /\ note.pc = "primary"
          /\ note' = [pc |-> "mirror", id |-> note.id]
          /\ result' = result
          /\ loading' = loading
          /\ error' = error
       \/ /\ note.pc = "mirror"
          /\ note'.pc = "idle"
          /\ error'
               = Str(<<"C", "o", "u", "l", "d", " ", "n", "o", "t", " ", "f",
                       "e", "t", "c", "h", " ", "f", "u", "l", "l", " ", "n",
                       "o", "t", "e", " ", "d", "e", "t", "a", "i", "l", "s",
                       ".">>)
          /\ result' = result
          /\ ~loading']_vars

\* C27 witness: both sources have failed for a remote entry while the
\* record of an upload is shown
C27_Witness ==
  /\ variant = "archive"
  /\ phase = "ready"
  /\ note.pc = "idle"
  /\ ~loading
  /\ error = Str(FetchFailedText)
  /\ result # Null
  /\ \E i \in 1..Len(history) : "isRemote" \in DOMAIN history[i]
  /\ \E i \in 1..Len(history) : result = history[i]

\* the ids of the entries of h
IdsOf(h) == {Field(h[i], "id") : i \in 1..Len(h)}

\* the milliseconds of an entry's metadata.processedAt, 0 without one
ProcessedMs(e) ==
  IF "metadata" \in DOMAIN e /\ Field(e.metadata, "processedAt").t = "string"
  THEN DigitsValue(SubSeq(e.metadata.processedAt.s, 21, 23))
  ELSE 0

\* C26: a manifest sync of the archive client either leaves history as it
\* is or, for some manifest, gives a history in which no id is twice that
\* was not twice before, every entry history had is still there field by
\* field, the new entries are exactly one stub (isRemote true, with the
\* item's id and fileName) for each id of the manifest that history did
\* not hold, the entries are in descending order of metadata.processedAt,
\* and another sync with the same manifest changes nothing.
C26_SyncHistory ==
  [][(/\ variant = "archive"
      /\ phase = "ready"
      /\ phase' = "ready"
      /\ sync # "idle"
      /\ sync' = "idle") =>
       \/ history' = history
       \/ \E data \in Manifests :
            /\ \A i, j \in 1..Len(history') :
                 (i # j /\ Field(history'[i], "id") = Field(history'[j], "id")) =>
                   \E k, l \in 1..Len(history) :
                     /\ k # l
                     /\ Field(history[k], "id") = Field(history'[i], "id")
                     /\ Field(history[l], "id") = Field(history'[i], "id")
            /\ \A i \in 1..Len(history) :
                 Copies(history', history[i]) = Copies(history, history[i])
            /\ Len(history')
                 = Len(history)
                     + Cardinality({data[k].id : k \in 1..Len(data)}
                                     \ IdsOf(history))
            /\ \A i \in 1..Len(history') :
                 (\A k \in 1..Len(history) : history[k] # history'[i]) =>
                   /\ history'[i].isRemote = TRUE
                   /\ history'[i].id \notin IdsOf(history)
                   /\ \E k \in 1..Len(data) :
                        /\ data[k].id = history'[i].id
                        /\ data[k].fileName = history'[i].fileName
            /\ \A i \in 1..(Len(history') - 1) :
                 ProcessedMs(history'[i]) >= ProcessedMs(history'[i + 1])
            /\ SyncHistory(history', data) = history']_vars

\* C26 witness: a sync has put the stub of the other note in front of the
\* older record of an upload, whose id the manifests list too, and no
\* stub was made for that id
C26_Witness ==
  /\ variant = "archive"
  /\ phase = "ready"
  /\ sync = "idle"
  /\ Len(history) = 2
  /\ "isRemote" \in DOMAIN history[1]
  /\ history[1].id = Str(<<"9">>)
  /\ "isRemote" \notin DOMAIN history[2]
  /\ history[2].id = Str(<<"0">>)

\* the characters a and b are the same letter, whatever the case
SameLetter(a, b) ==
  \/ a = b
  \/ \E n \in 1..26 : {a, b} = {UpperCase[n], LowerCase[n]}

\* the text s contains the query q, whatever the case
Contains(s, q) ==
  \E i \in 0..(Len(s) - Len(q)) :
    \A k \in 1..Len(q) : SameLetter(s[i + k], q[k])

RECURSIVE Matching(_, _, _)
\* the utterances of us, in their order, whose text (or speaker too, when
\* bySpeaker) contains q
Matching(us, q, bySpeaker) ==
  IF Len(us) = 0 THEN <<>>
  ELSE (IF \/ Contains(Field(us[1], "text").s, q)
           \/ bySpeaker /\ Contains(Field(us[1], "speaker").s, q)
        THEN <<us[1]>> ELSE <<>>)
         \o Matching(Tail(us), q, bySpeaker)

\* C21: whenever a client with a transcript search shows a result, the
\* utterances listed are exactly the utterances of the result, in their
\* order, whose text (in the capped, tabbed client: whose text or
\* speaker) contains the query whatever the case, and all of them when
\* the query is empty.
C21_SearchOnlyFilters ==
  (variant \in {"archive", "capped"} /\ result # Null) =>
    /\ ~FilteredUtterances(result, view.searchQuery).thrown
    /\ FilteredUtterances(result, view.searchQuery).shown
         = Matching(result.utterances, view.searchQuery, variant = "capped")
    /\ view.searchQuery = <<>> =>
         FilteredUtterances(result, view.searchQuery).shown = result.utterances
====
